---- MODULE Spec2Model ----
(***************************************************************************)
(* PoreModel<KLEN> (src/src/pore_model.hpp): the k-mer emission model of   *)
(* UNCALLED.  The module models the file constructor statement by          *)
(* statement (header column count, first row read, do/while read loop,     *)
(* aggregate pass), the scorer event_match_prob, and the normalizer        *)
(* get_norm_params / normalize as called by one or two caller threads on   *)
(* the finished table.                                                     *)
(*                                                                         *)
(* float values are fixed-point integers with FP units per 1.0; values     *)
(* beyond FMax overflow to the infinities, and NaN is a value of its own,  *)
(* so that x/0, 0/0 and log(0) behave as IEEE arithmetic makes them.       *)
(***************************************************************************)
EXTENDS Integers, Sequences, FiniteSets, TLC

-----------------------------------------------------------------------------
(* Bounds of the model *)

\* largest finite float magnitude of the model, in fixed-point units
FMax == 10000000
\* most data rows in a generated model file
MaxRows == 2

\* fixed-point units per 1.0
FP == 100
\* M_PI in fixed-point units
M_PI == 314
\* number of values of a u8 (loop counter i and num_cols)
U8 == 256

-----------------------------------------------------------------------------
(* float arithmetic *)

PInf == FMax + 1
NInf == 0 - (FMax + 1)
NaN == FMax + 2
\* the content of a float that was never assigned
Indet == FMax + 3

IsFin(x) == x >= 0 - FMax /\ x <= FMax
IsNaN(x) == x = NaN
Abs(x) == IF x < 0 THEN 0 - x ELSE x
Sgn(x) == IF x < 0 THEN 0 - 1 ELSE 1

\* a finite result, or the infinity it overflows to
Clip(x) == IF x > FMax THEN PInf ELSE IF x < 0 - FMax THEN NInf ELSE x

\* Op applied to the values of its arguments, each evaluated once
Let1(Op(_), a) == CHOOSE r \in { Op(x) : x \in {a} } : TRUE
Let2(Op(_, _), a, b) == CHOOSE r \in { Op(x, y) : x \in {a}, y \in {b} } : TRUE

NegV(a) == IF IsNaN(a) THEN NaN ELSE 0 - a

AddV(a, b) ==
    IF IsNaN(a) \/ IsNaN(b) THEN NaN
    ELSE IF IsFin(a) /\ IsFin(b) THEN Clip(a + b)
    ELSE IF IsFin(a) THEN b
    ELSE IF IsFin(b) THEN a
    ELSE IF a = b THEN a ELSE NaN

MulV(a, b) ==
    IF IsNaN(a) \/ IsNaN(b) THEN NaN
    ELSE IF IsFin(a) /\ IsFin(b) THEN
        LET x == Abs(a)
            y == Abs(b)
            hi == x \div FP
            lo == x % FP
            s == Sgn(a) * Sgn(b)
        IN  IF hi > 0 /\ y > FMax \div hi THEN s * PInf
            ELSE s * Clip(hi * y + (lo * y) \div FP)
    ELSE IF a = 0 \/ b = 0 THEN NaN
    ELSE Sgn(a) * Sgn(b) * PInf

DivV(a, b) ==
    IF IsNaN(a) \/ IsNaN(b) THEN NaN
    ELSE IF IsFin(a) /\ IsFin(b) THEN
        IF b = 0 THEN (IF a = 0 THEN NaN ELSE Sgn(a) * PInf)
        ELSE Sgn(a) * Sgn(b) * Clip((Abs(a) * FP) \div Abs(b))
    ELSE IF IsFin(a) THEN 0
    ELSE IF IsFin(b) THEN Sgn(a) * Sgn(b) * PInf
    ELSE NaN

RECURSIVE SqrtIter(_, _)
\* Newton's iteration from x down to the floor of the square root of n
SqrtIter(n, x) ==
    CHOOSE r \in { IF y >= x THEN x ELSE SqrtIter(n, y) : y \in {(x + n \div x) \div 2} } : TRUE

\* floor of the square root of a natural number
ISqrt(n) == IF n = 0 THEN 0 ELSE SqrtIter(n, n)

SqrtV(a) ==
    IF IsNaN(a) \/ a < 0 THEN NaN
    ELSE IF a = PInf THEN PInf
    ELSE ISqrt(a * FP)

RECURSIVE Log2FP(_)
\* log2 of a positive fixed-point number: exponent plus linear mantissa
Log2FP(a) ==
    IF a >= 2 * FP THEN FP + Log2FP(a \div 2)
    ELSE IF a < FP THEN Log2FP(a * 2) - FP
    ELSE a - FP

\* natural logarithm: ln 2 (0.69) times log2
LogV(a) ==
    IF IsNaN(a) \/ a < 0 THEN NaN
    ELSE IF a = 0 THEN NInf
    ELSE IF a = PInf THEN PInf
    ELSE (Log2FP(a) * 69) \div 100

\* the float operations -a, a + b, a - b, a * b, a / b, sqrt(a), log(a)
FNeg(a) == Let1(NegV, a)
FAdd(a, b) == Let2(AddV, a, b)
FSub(a, b) == Let2(AddV, a, NegV(b))
FMul(a, b) == Let2(MulV, a, b)
FDiv(a, b) == Let2(DivV, a, b)
FSqrt(a) == Let1(SqrtV, a)
FLog(a) == Let1(LogV, a)

\* a > b on floats: false when either is NaN
FGt(a, b) == ~IsNaN(a) /\ ~IsNaN(b) /\ a > b
FGe(a, b) == ~IsNaN(a) /\ ~IsNaN(b) /\ a >= b

-----------------------------------------------------------------------------
(* k-mer codec (bp.hpp, consumed interface) *)

BaseVal(c) == IF c = "A" THEN 0 ELSE IF c = "C" THEN 1 ELSE IF c = "G" THEN 2 ELSE 3

RECURSIVE Pow4(_)
Pow4(k) == IF k = 0 THEN 1 ELSE 4 * Pow4(k - 1)

\* kmer_count<KLEN>(): the size of the k-mer space
kmer_count(k) == Pow4(k)

IsKmer(s, k) == Len(s) = k /\ \A j \in 1..Len(s) : s[j] \in {"A", "C", "G", "T"}

RECURSIVE EncodeFrom(_, _)
EncodeFrom(s, n) == IF n = 0 THEN 0 ELSE 4 * EncodeFrom(s, n - 1) + BaseVal(s[n])

\* str_to_kmer<KLEN>(s): the identifiers the call can return.  A k-mer gives its
\* base-4 value, a token of k symbols with a symbol that is no base gives an
\* identifier past the table, and a token shorter than k is read past its end.
str_to_kmer(s, k) ==
    IF IsKmer(s, k) THEN {EncodeFrom(s, k)}
    ELSE IF Len(s) = k THEN {kmer_count(k)}
    ELSE 0..kmer_count(k)

RECURSIVE CompDigits(_, _)
\* the complement symbols of the k digits of id, in reversed order
CompDigits(id, k) ==
    IF k = 0 THEN 0
    ELSE (3 - (id % 4)) * Pow4(k - 1) + CompDigits(id \div 4, k - 1)

\* kmer_comp<KLEN>(id); an identifier past the table stays past it
kmer_comp(id, k) == IF id >= kmer_count(k) THEN id ELSE CompDigits(id, k)

-----------------------------------------------------------------------------
(* model files *)

\* the parse result of a token that is no number
NotNum == FMax + 4

KmerTok(s) == [s |-> s, num |-> NotNum]
NumTok(v) == [s |-> <<"#">>, num |-> v]

\* fields read per data row for a header of n columns (lines 72-89)
FieldsFor(n) == IF n >= 7 THEN 7 ELSE IF n = 3 THEN 3 ELSE IF n = 4 THEN 4 ELSE 6

\* a data row in the layout of nf fields: kmer, level_mean, level_stdv, then
\* sd_mean, sd_stdv, (lambda,) weight as the layout has them
RowTokens(r, nf) ==
    <<KmerTok(r.kmer), NumTok(r.mean), NumTok(r.stdv)>>
    \o (IF nf >= 4 THEN <<NumTok(FP)>> ELSE <<>>)
    \o (IF nf >= 6 THEN <<NumTok(FP)>> ELSE <<>>)
    \o (IF nf >= 7 THEN <<NumTok(r.mean + FP)>> ELSE <<>>)
    \o (IF nf >= 6 THEN <<NumTok(FP)>> ELSE <<>>)

RECURSIVE BodyOf(_, _)
BodyOf(rs, nf) == IF rs = <<>> THEN <<>> ELSE RowTokens(Head(rs), nf) \o BodyOf(Tail(rs), nf)

\* a header of n one-letter column names, blank separated
HeaderOf(n) == [j \in 1..(2 * n - 1) |-> IF j % 2 = 1 THEN "x" ELSE IF j % 4 = 0 THEN "\t" ELSE " "]

\* a header line of 256 characters
LongHeader == [j \in 1..U8 |-> "x"]

Row(k, m, s) == [kmer |-> k, mean |-> m, stdv |-> s]

\* rows of a KLEN = 1 file: a row, a second row for the same k-mer, a row of
\* zero level_stdv, and a row whose token is no k-mer
RowPool1 ==
    { Row(<<"A">>, 1 * FP, 1 * FP), Row(<<"A">>, 3 * FP, 2 * FP),
      Row(<<"C">>, 5 * FP, 0), Row(<<"N">>, 7 * FP, 1 * FP) }

\* the two rows of the KLEN = 4 scenario: AAAA 90.0 1.0 and AAAC 95.0 2.0
ScenarioRows ==
    << Row(<<"A", "A", "A", "A">>, 90 * FP, 1 * FP),
       Row(<<"A", "A", "A", "C">>, 95 * FP, 2 * FP) >>

RECURSIVE SeqsUpTo(_, _)
SeqsUpTo(S, n) ==
    IF n = 0 THEN {<<>>}
    ELSE LET P == SeqsUpTo(S, n - 1) IN P \cup {Append(p, x) : p \in {q \in P : Len(q) = n - 1}, x \in S}

File(k, c, nc, rs, tr) ==
    [KLEN |-> k, complement |-> c, opened |-> TRUE, header |-> HeaderOf(nc),
     rows |-> rs, body |-> BodyOf(rs, FieldsFor(nc)), trail |-> tr]

\* files of complete rows in the 3 and the 7 column layout
GenFiles == { File(1, c, nc, rs, tr) : c \in BOOLEAN, nc \in {3, 7},
              rs \in SeqsUpTo(RowPool1, MaxRows), tr \in BOOLEAN }

ScenarioFiles == { File(4, c, 3, ScenarioRows, tr) : c \in BOOLEAN, tr \in BOOLEAN }

\* the 4 column and the "other" layout
OtherLayoutFiles ==
    { File(1, FALSE, nc, <<Row(<<"A">>, 1 * FP, 1 * FP), Row(<<"G">>, 3 * FP, 1 * FP)>>, TRUE) :
      nc \in {4, 5, 6} }

\* a path that cannot be opened: nothing is read from it
UnopenedFile ==
    [KLEN |-> 1, complement |-> FALSE, opened |-> FALSE, header |-> <<>>,
     rows |-> <<>>, body |-> <<>>, trail |-> FALSE]

\* a file whose first level_mean field is no number
BadNumberFile ==
    [File(1, FALSE, 3, <<Row(<<"A">>, 1 * FP, 1 * FP)>>, TRUE)
        EXCEPT !.body = <<KmerTok(<<"A">>), KmerTok(<<"x">>), NumTok(FP)>>]

\* a file whose header line has 256 characters
LongHeaderFile ==
    [File(1, FALSE, 3, <<Row(<<"A">>, 1 * FP, 1 * FP)>>, TRUE) EXCEPT !.header = LongHeader]

Files == GenFiles \cup ScenarioFiles \cup OtherLayoutFiles
            \cup {UnopenedFile, BadNumberFile, LongHeaderFile}

\* files whose table is shared by two callers
SharedFiles ==
    { File(1, FALSE, 3, rs, TRUE) :
        rs \in { <<Row(<<"A">>, 1 * FP, 1 * FP), Row(<<"C">>, 5 * FP, 0)>>,
                 <<Row(<<"A">>, 3 * FP, 2 * FP), Row(<<"N">>, 7 * FP, 1 * FP)>> } }

-----------------------------------------------------------------------------
(* state *)

VARIABLES
    \* inputs of the constructor: the template parameter, the flag, the file
    KLEN, complement, opened, header, body, trail,
    \* the data rows the file body holds (history variable)
    rows,
    \* position in the constructor, then "done"
    pc,
    \* locals of the header loop (lines 54-56)
    i, num_cols, prev_ws,
    \* model_in: next token, failbit, eofbit
    model_in,
    \* locals of the read loop (lines 67-69)
    kmer_str, lv_mean, lv_stdv, lambda,
    \* the file row the locals were last read from, 0 if none (history variable)
    cur,
    \* the row processed by each pass of the read loop (history variable)
    processed,
    \* the parity of the number of read loop passes made (history variable)
    passes,
    \* the loop variable of the aggregate pass (line 155)
    kmer,
    \* members of PoreModel (lines 264-270)
    lv_means_, lv_vars_x2_, lognorm_denoms_, lambda_, model_mean_, model_stdv_, loaded_,
    \* the number of caller threads and each caller's call in progress
    callers, th

inputVars == <<KLEN, complement, opened, header, body, trail, rows, callers>>
headerVars == <<i, num_cols, prev_ws>>
readVars == <<model_in, kmer_str, lv_mean, lv_stdv, lambda, cur, processed, passes>>
ctorVars == <<pc, i, num_cols, prev_ws, model_in, kmer_str, lv_mean, lv_stdv, lambda, cur, processed, passes, kmer>>
arrayVars == <<lv_means_, lv_vars_x2_, lognorm_denoms_>>
tableVars == <<lv_means_, lv_vars_x2_, lognorm_denoms_, lambda_, model_mean_, model_stdv_, loaded_>>
vars == <<inputVars, pc, headerVars, readVars, kmer, tableVars, th>>

kmer_count_ == kmer_count(KLEN)

\* the values an unassigned float can turn out to hold
UninitVals == {0, FMax, NaN}
Vals(x) == IF x = Indet THEN UninitVals ELSE {x}

Threads == {1, 2}

NoNorm == [shift |-> 0, scale |-> 0]

IdleCall ==
    [pc |-> "idle", op |-> "none", x |-> 0, id |-> 0, arg |-> <<>>, given |-> NoNorm,
     norm |-> NoNorm, raw |-> <<>>, events |-> <<>>, i |-> 0, ret |-> 0, rparams |-> NoNorm]

-----------------------------------------------------------------------------
(* std::istream extraction on model_in *)

Good(st) == ~st.fail /\ ~st.eof
AtEnd(st) == st.pos > Len(body)
\* the token at st.pos is the last one and no white space follows it
HitsEof(st) == st.pos = Len(body) /\ ~trail

\* model_in >> std::string
ExtractStr(st) ==
    IF ~Good(st) THEN [st |-> [st EXCEPT !.fail = TRUE], set |-> FALSE, ok |-> FALSE, val |-> <<>>]
    ELSE IF AtEnd(st) THEN
        [st |-> [st EXCEPT !.fail = TRUE, !.eof = TRUE], set |-> FALSE, ok |-> FALSE, val |-> <<>>]
    ELSE [st |-> [pos |-> st.pos + 1, fail |-> FALSE, eof |-> HitsEof(st)],
          set |-> TRUE, ok |-> TRUE, val |-> body[st.pos].s]

\* model_in >> float: a token that is no number sets failbit, stores 0 and is
\* not consumed
ExtractFloat(st) ==
    IF ~Good(st) THEN [st |-> [st EXCEPT !.fail = TRUE], set |-> FALSE, ok |-> FALSE, val |-> 0]
    ELSE IF AtEnd(st) THEN
        [st |-> [st EXCEPT !.fail = TRUE, !.eof = TRUE], set |-> FALSE, ok |-> FALSE, val |-> 0]
    ELSE IF body[st.pos].num = NotNum THEN
        [st |-> [st EXCEPT !.fail = TRUE], set |-> TRUE, ok |-> FALSE, val |-> 0]
    ELSE [st |-> [pos |-> st.pos + 1, fail |-> FALSE, eof |-> HitsEof(st)],
          set |-> TRUE, ok |-> TRUE, val |-> body[st.pos].num]

RECURSIVE ExtractFloats(_, _)
\* n float extractions in a row: the results, first to last
ExtractFloats(st, n) ==
    IF n = 0 THEN <<>>
    ELSE Let1(LAMBDA e : <<e>> \o ExtractFloats(e.st, n - 1), ExtractFloat(st))

has_lambda == num_cols >= 7

\* the locals after a row read whose extractions gave e1 and es
RowRead(e1, es, m, sd) ==
    LET nf == FieldsFor(num_cols)
        row == (model_in.pos - 1) \div nf + 1
        allok == e1.ok /\ \A j \in 1..(nf - 1) : es[j].ok
    IN  [model_in |-> es[nf - 1].st,
         kmer_str |-> IF e1.set THEN e1.val ELSE kmer_str,
         lv_mean |-> IF es[1].set THEN es[1].val ELSE m,
         lv_stdv |-> IF es[2].set THEN es[2].val ELSE sd,
         lambda |-> IF has_lambda /\ es[5].set THEN es[5].val ELSE lambda,
         cur |-> IF allok THEN row ELSE IF e1.set \/ es[1].set \/ es[2].set THEN 0 ELSE cur]

\* one row read (lines 75-89 and 133-147) with the locals holding m and sd:
\* the stream and the locals afterwards
ReadRow(m, sd) ==
    Let1(LAMBDA e1 :
            Let1(LAMBDA es : RowRead(e1, es, m, sd),
                 ExtractFloats(e1.st, FieldsFor(num_cols) - 1)),
         ExtractStr(model_in))

-----------------------------------------------------------------------------
(* PoreModel(std::string model_fname, bool complement) *)

Init ==
    /\ \E f \in Files, n \in Threads :
        /\ n = 1 \/ f \in SharedFiles
        /\ callers = n
        /\ KLEN = f.KLEN
        /\ complement = f.complement
        /\ opened = f.opened
        /\ header = f.header
        /\ body = f.body
        /\ trail = f.trail
        /\ rows = f.rows
        \* std::getline: an unopened stream fails; a header line that ends the
        \* file without a newline sets eofbit
        /\ model_in = [pos |-> 1, fail |-> ~f.opened,
                       eof |-> f.opened /\ f.body = <<>> /\ ~f.trail]
    /\ pc = "header"
    /\ i = 0
    /\ num_cols = 0
    /\ prev_ws = TRUE
    /\ kmer_str = <<>>
    /\ lv_mean = Indet
    /\ lv_stdv = Indet
    /\ lambda = Indet
    /\ cur = 0
    /\ processed = <<>>
    /\ passes = 0
    /\ kmer = 0
    /\ lv_means_ = <<>>
    /\ lv_vars_x2_ = <<>>
    /\ lognorm_denoms_ = <<>>
    /\ lambda_ = Indet
    /\ model_mean_ = Indet
    /\ model_stdv_ = Indet
    /\ loaded_ \in BOOLEAN
    /\ th = [t \in Threads |-> IdleCall]

\* one pass of the column count loop (lines 56-64); i and num_cols are u8
HeaderLoop ==
    /\ pc = "header"
    /\ i < Len(header)
    /\ IF header[i + 1] = " " \/ header[i + 1] = "\t"
       THEN prev_ws' = TRUE /\ UNCHANGED num_cols
       ELSE /\ num_cols' = IF prev_ws THEN (num_cols + 1) % U8 ELSE num_cols
            /\ prev_ws' = FALSE
    /\ i' = (i + 1) % U8
    /\ UNCHANGED <<inputVars, pc, readVars, kmer, tableVars, th>>

\* the table after the three resize calls and the sentinel store (lines 94-100)
Resized == [k \in 0..kmer_count_ |-> IF k = kmer_count_ THEN 0 - FP ELSE 0]

\* lines 72-105: the first row read, the resize, the sentinel slot
FirstRead ==
    /\ pc = "header"
    /\ ~(i < Len(header))
    /\ \E r \in {ReadRow(lv_mean, lv_stdv)} :
        /\ model_in' = r.model_in
        /\ kmer_str' = r.kmer_str
        /\ lv_mean' = r.lv_mean
        /\ lv_stdv' = r.lv_stdv
        /\ lambda' = r.lambda
        /\ cur' = r.cur
        /\ lambda_' = IF has_lambda THEN r.lambda ELSE 0 - FP
    /\ lv_means_' = Resized
    /\ lv_vars_x2_' = Resized
    /\ lognorm_denoms_' = Resized
    /\ model_mean_' = 0
    /\ pc' = "read_loop"
    /\ UNCHANGED <<inputVars, headerVars, processed, passes, kmer, model_stdv_, loaded_, th>>

\* 2*lv_stdv*lv_stdv (line 126)
Var2x(sd) == FMul(FMul(2 * FP, sd), sd)

\* log(sqrt(M_PI * v)) (line 127)
LogNormDenom(v) == FLog(FSqrt(FMul(M_PI, v)))

\* the history of processed rows, kept to the length a terminating load can reach
Logged(c) == IF Len(processed) < MaxRows + 2 THEN Append(processed, c) ELSE processed

\* one pass of the do/while loop (lines 108-150)
ReadLoop ==
    /\ pc = "read_loop"
    /\ \E k0 \in str_to_kmer(kmer_str, KLEN) :
        LET id == IF complement THEN kmer_comp(k0, KLEN) ELSE k0
            valid == ~(id < 0 \/ id >= kmer_count_)
        IN  \E m \in (IF valid THEN Vals(lv_mean) ELSE {lv_mean}),
               sd \in (IF valid THEN Vals(lv_stdv) ELSE {lv_stdv}) :
            /\ IF valid
               THEN /\ lv_means_' = [lv_means_ EXCEPT ![id] = m]
                    /\ lv_vars_x2_' = [lv_vars_x2_ EXCEPT ![id] = Var2x(sd)]
                    /\ lognorm_denoms_' = [lognorm_denoms_ EXCEPT ![id] = LogNormDenom(Var2x(sd))]
                    /\ model_mean_' = FAdd(model_mean_, m)
               ELSE UNCHANGED <<arrayVars, model_mean_>>
            /\ \E r \in {ReadRow(m, sd)} :
                /\ model_in' = r.model_in
                /\ kmer_str' = r.kmer_str
                /\ lv_mean' = r.lv_mean
                /\ lv_stdv' = r.lv_stdv
                /\ lambda' = r.lambda
                /\ cur' = r.cur
                /\ lambda_' = IF has_lambda THEN r.lambda ELSE 0 - FP
                /\ pc' = IF r.model_in.eof THEN "aggregate" ELSE "read_loop"
    /\ processed' = Logged(cur)
    /\ passes' = 1 - passes
    /\ UNCHANGED <<inputVars, headerVars, kmer, model_stdv_, loaded_, th>>

\* a loader that divides the running sum by the number of read loop passes
ModelMean_OverPasses == FDiv(model_mean_, Len(processed) * FP)

\* model_mean_ /= kmer_count_ (line 153)
ModelMean == FDiv(model_mean_, kmer_count_ * FP)

\* lines 152-155: the mean, model_stdv_ = 0, and the loop variable set to 0
Aggregate ==
    /\ pc = "aggregate"
    /\ model_mean_' = ModelMean
    /\ model_stdv_' = 0
    /\ kmer' = 0
    /\ pc' = "stdv_loop"
    /\ UNCHANGED <<inputVars, headerVars, readVars, arrayVars, lambda_, loaded_, th>>

\* pow(lv_means_[k] - model_mean_, 2) (line 156)
SqDev(k) == Let1(LAMBDA d : FMul(d, d), FSub(lv_means_[k], model_mean_))

\* sqrt(model_stdv_ / kmer_count_) (line 157)
ModelStdv == FSqrt(FDiv(model_stdv_, kmer_count_ * FP))

\* one pass of the loop of lines 155-156, or its exit and lines 157-159
StdvLoop ==
    /\ pc = "stdv_loop"
    /\ IF kmer < kmer_count_
       THEN /\ model_stdv_' = FAdd(model_stdv_, SqDev(kmer))
            /\ kmer' = kmer + 1
            /\ UNCHANGED <<pc, loaded_>>
       ELSE /\ model_stdv_' = ModelStdv
            /\ loaded_' = TRUE
            /\ pc' = "done"
            /\ UNCHANGED kmer
    /\ UNCHANGED <<inputVars, headerVars, readVars, arrayVars, lambda_, model_mean_, th>>

\* is_loaded()
is_loaded == loaded_

-----------------------------------------------------------------------------
(* scorer and normalizer *)

\* a scorer whose quadratic term is not negated
event_match_prob_Unsigned(e, k_id) ==
    Let1(LAMBDA d : FSub(FDiv(FMul(d, d), lv_vars_x2_[k_id]), lognorm_denoms_[k_id]),
         FSub(e, lv_means_[k_id]))

\* event_match_prob(float e, u16 k_id) (lines 166-168)
event_match_prob(e, k_id) ==
    Let1(LAMBDA d : FSub(FDiv(FNeg(FMul(d, d)), lv_vars_x2_[k_id]), lognorm_denoms_[k_id]),
         FSub(e, lv_means_[k_id]))

\* event_match_prob(const Event &e, u16 k_id) (lines 170-172)
event_match_prob_event(e, k_id) == event_match_prob(e.mean, k_id)

RECURSIVE SeqSum(_, _)
\* the sum of the first n values of s, added in order from 0
SeqSum(s, n) == IF n = 0 THEN 0 ELSE FAdd(SeqSum(s, n - 1), s[n])

RECURSIVE SeqSqDev(_, _, _)
\* the sum of pow(s[j] - mean, 2) over the first n values of s
SeqSqDev(s, n, mean) ==
    IF n = 0 THEN 0
    ELSE FAdd(SeqSqDev(s, n - 1, mean), Let1(LAMBDA d : FMul(d, d), FSub(s[n], mean)))

\* events_mean of lines 202-205
BatchMean(s) == FDiv(SeqSum(s, Len(s)), Len(s) * FP)

\* events_stdv of lines 208-211, given events_mean
BatchStdvAround(s, mean) == FSqrt(FDiv(SeqSqDev(s, Len(s), mean), Len(s) * FP))

BatchStdv(s) == Let1(LAMBDA mean : BatchStdvAround(s, mean), BatchMean(s))

\* scaling parameters whose scale is events_stdv / model_stdv_
ScalingParams_Inverted(events_mean, events_stdv) ==
    Let1(LAMBDA scale : [shift |-> FSub(model_mean_, FMul(scale, events_mean)), scale |-> scale],
         FDiv(events_stdv, model_stdv_))

\* lines 214-216: the scaling parameters for events_mean and events_stdv
ScalingParams(events_mean, events_stdv) ==
    Let1(LAMBDA scale : [shift |-> FSub(model_mean_, FMul(scale, events_mean)), scale |-> scale],
         FDiv(model_stdv_, events_stdv))

\* get_norm_params(const std::vector<float> &events) (lines 200-219)
get_norm_params(events) ==
    Let1(LAMBDA events_mean : ScalingParams(events_mean, BatchStdvAround(events, events_mean)),
         BatchMean(events))

EventMeans(events) == [j \in 1..Len(events) |-> events[j].mean]

\* lines 194-195: the scaling parameters for events_mean and events_stdv
ScalingParamsEvents(events_mean, events_stdv) ==
    Let1(LAMBDA scale : [shift |-> FSub(model_mean_, FMul(scale, events_mean)), scale |-> scale],
         FDiv(model_stdv_, events_stdv))

\* get_norm_params(const std::vector<Event> &events) (lines 179-198)
get_norm_params_events(events) ==
    Let2(LAMBDA means, events_mean :
            ScalingParamsEvents(events_mean,
                FSqrt(FDiv(SeqSqDev(means, Len(means), events_mean), Len(means) * FP))),
         EventMeans(events),
         FDiv(SeqSum(EventMeans(events), Len(events)), Len(events) * FP))

\* norm.scale * x + norm.shift (lines 226 and 235)
Affine(norm, x) == FAdd(FMul(norm.scale, x), norm.shift)

\* a normalizer that never estimates
NormUsed_AsGiven(events, norm) == norm

\* the norm the loop uses: estimated when norm.scale == 0 (lines 231-233)
NormUsed(events, norm) == IF norm.scale = 0 THEN get_norm_params(events) ELSE norm

\* the same for the Event overload (lines 222-224)
NormUsedEvents(events, norm) == IF norm.scale = 0 THEN get_norm_params_events(events) ELSE norm

Event(m) == [mean |-> m]

\* batches of raw values the callers hold: empty, constant, and spread
RawBatches == { <<>>, <<FP, FP>>, <<FP, 3 * FP>> }
EventBatches == { [j \in 1..Len(b) |-> Event(b[j])] : b \in RawBatches }

\* the norm arguments a caller passes: the default, the estimate, its own
NormArgs(est) == { NoNorm, est, [shift |-> FP, scale |-> 2 * FP] }

MatchXs == {FP, 2 * FP}
MatchIds == {0, 1, kmer_count_}

\* caller t may start a call on the constructed table
Ready(t) == pc = "done" /\ t <= callers /\ th[t].pc = "idle"

CallMatch(t, e, k_id) ==
    /\ Ready(t)
    /\ th' = [th EXCEPT ![t] = [IdleCall EXCEPT !.pc = "ret", !.op = "match", !.x = e,
                                    !.id = k_id, !.ret = event_match_prob(e, k_id)]]
    /\ UNCHANGED <<inputVars, ctorVars, tableVars>>

CallMatchEvent(t, e, k_id) ==
    /\ Ready(t)
    /\ th' = [th EXCEPT ![t] = [IdleCall EXCEPT !.pc = "ret", !.op = "match_event", !.x = e.mean,
                                    !.id = k_id, !.ret = event_match_prob_event(e, k_id)]]
    /\ UNCHANGED <<inputVars, ctorVars, tableVars>>

CallGetNormParams(t, b) ==
    /\ Ready(t)
    /\ th' = [th EXCEPT ![t] = [IdleCall EXCEPT !.pc = "ret", !.op = "params", !.arg = b,
                                    !.rparams = get_norm_params(b)]]
    /\ UNCHANGED <<inputVars, ctorVars, tableVars>>

CallGetNormParamsEvents(t, b) ==
    /\ Ready(t)
    /\ th' = [th EXCEPT ![t] = [IdleCall EXCEPT !.pc = "ret", !.op = "params_events", !.arg = b,
                                    !.rparams = get_norm_params_events(b)]]
    /\ UNCHANGED <<inputVars, ctorVars, tableVars>>

\* normalize(std::vector<float>&, NormParams): entry and lines 231-233
NormalizeEnter(t, b, norm) ==
    /\ Ready(t)
    /\ th' = [th EXCEPT ![t] = [IdleCall EXCEPT !.pc = "loop", !.op = "normalize", !.arg = b,
                                    !.raw = b, !.given = norm, !.norm = NormUsed(b, norm)]]
    /\ UNCHANGED <<inputVars, ctorVars, tableVars>>

\* a loop that keeps the shift it applies in the table's model_mean_
NormalizeLoop_WritesTable(t) ==
    /\ th[t].pc = "loop" /\ th[t].op = "normalize"
    /\ IF th[t].i < Len(th[t].raw)
       THEN th' = [th EXCEPT ![t].raw[th[t].i + 1] = Affine(th[t].norm, th[t].raw[th[t].i + 1]),
                             ![t].i = th[t].i + 1]
       ELSE th' = [th EXCEPT ![t].pc = "ret"]
    /\ model_mean_' = th[t].norm.shift
    /\ UNCHANGED <<inputVars, ctorVars, arrayVars, lambda_, model_stdv_, loaded_>>

\* one pass of the loop of lines 234-236, or its exit
NormalizeLoop(t) ==
    /\ th[t].pc = "loop" /\ th[t].op = "normalize"
    /\ IF th[t].i < Len(th[t].raw)
       THEN th' = [th EXCEPT ![t].raw[th[t].i + 1] = Affine(th[t].norm, th[t].raw[th[t].i + 1]),
                             ![t].i = th[t].i + 1]
       ELSE th' = [th EXCEPT ![t].pc = "ret"]
    /\ UNCHANGED <<inputVars, ctorVars, tableVars>>

\* normalize(std::vector<Event>&, NormParams): entry and lines 222-224
NormalizeEventsEnter(t, b, norm) ==
    /\ Ready(t)
    /\ th' = [th EXCEPT ![t] = [IdleCall EXCEPT !.pc = "loop", !.op = "normalize_events", !.arg = b,
                                    !.events = b, !.given = norm, !.norm = NormUsedEvents(b, norm)]]
    /\ UNCHANGED <<inputVars, ctorVars, tableVars>>

\* one pass of the loop of lines 225-227, or its exit
NormalizeEventsLoop(t) ==
    /\ th[t].pc = "loop" /\ th[t].op = "normalize_events"
    /\ IF th[t].i < Len(th[t].events)
       THEN th' = [th EXCEPT ![t].events[th[t].i + 1].mean =
                                    Affine(th[t].norm, th[t].events[th[t].i + 1].mean),
                             ![t].i = th[t].i + 1]
       ELSE th' = [th EXCEPT ![t].pc = "ret"]
    /\ UNCHANGED <<inputVars, ctorVars, tableVars>>

\* the caller takes the result of its call
Return(t) ==
    /\ th[t].pc = "ret"
    /\ th' = [th EXCEPT ![t] = IdleCall]
    /\ UNCHANGED <<inputVars, ctorVars, tableVars>>

-----------------------------------------------------------------------------
(* specifications *)

Construct == HeaderLoop \/ FirstRead \/ ReadLoop \/ Aggregate \/ StdvLoop

Next ==
    \/ HeaderLoop
    \/ FirstRead
    \/ ReadLoop
    \/ Aggregate
    \/ StdvLoop
    \/ \E t \in Threads, e \in MatchXs, k_id \in MatchIds : CallMatch(t, e, k_id)
    \/ \E t \in Threads, e \in MatchXs, k_id \in MatchIds : CallMatchEvent(t, Event(e), k_id)
    \/ \E t \in Threads, b \in RawBatches : CallGetNormParams(t, b)
    \/ \E t \in Threads, b \in EventBatches : CallGetNormParamsEvents(t, b)
    \/ \E t \in Threads, b \in RawBatches : \E norm \in NormArgs(get_norm_params(b)) :
            NormalizeEnter(t, b, norm)
    \/ \E t \in Threads : NormalizeLoop(t)
    \/ \E t \in Threads, b \in EventBatches : \E norm \in NormArgs(get_norm_params_events(b)) :
            NormalizeEventsEnter(t, b, norm)
    \/ \E t \in Threads : NormalizeEventsLoop(t)
    \/ \E t \in Threads : Return(t)

Spec == Init /\ [][Next]_vars

\* the constructor runs on a thread that is never suspended for ever
FairSpec == Init /\ [][Next]_vars /\ WF_vars(Construct)

-----------------------------------------------------------------------------
(* what the claims speak of *)

\* the file opened and its body is rows of the layout its header selects
CompleteRowsFile ==
    opened /\ Len(header) < U8 /\ body = BodyOf(rows, FieldsFor(num_cols))

\* the identifier row j of the file decodes to, after complementing
RowId(j) ==
    LET k0 == CHOOSE k \in str_to_kmer(rows[j].kmer, KLEN) : TRUE
    IN  IF complement THEN kmer_comp(k0, KLEN) ELSE k0

RowInRange(j) == RowId(j) >= 0 /\ RowId(j) < kmer_count_

\* the last row of the file for identifier id, 0 if there is none
LastRowFor(id) ==
    LET S == {j \in 1..Len(rows) : RowId(j) = id}
    IN  IF S = {} THEN 0 ELSE CHOOSE j \in S : \A j2 \in S : j2 <= j

WasProcessed(j) == \E p \in 1..Len(processed) : processed[p] = j

\* the locals hold a row whose token decodes past the table
HoldsOutOfRange ==
    \A k0 \in str_to_kmer(kmer_str, KLEN) :
        (IF complement THEN kmer_comp(k0, KLEN) ELSE k0) >= kmer_count_

RECURSIVE StoredSum(_, _)
\* the sum of the stored means of slots lo .. hi - 1
StoredSum(lo, hi) ==
    IF hi <= lo THEN 0
    ELSE IF hi = lo + 1 THEN lv_means_[lo]
    ELSE FAdd(StoredSum(lo, (lo + hi) \div 2), StoredSum((lo + hi) \div 2, hi))

RECURSIVE StoredSqDev(_, _, _)
\* the sum of the squared deviations from mean of the stored means of slots lo .. hi - 1
StoredSqDev(lo, hi, mean) ==
    IF hi <= lo THEN 0
    ELSE IF hi = lo + 1 THEN Let1(LAMBDA d : FMul(d, d), FSub(lv_means_[lo], mean))
    ELSE FAdd(StoredSqDev(lo, (lo + hi) \div 2, mean), StoredSqDev((lo + hi) \div 2, hi, mean))

FAbs(x) == IF IsNaN(x) THEN NaN ELSE Abs(x)
FLt(a, b) == ~IsNaN(a) /\ ~IsNaN(b) /\ a < b

\* |a - b| is at most tol
Within(a, b, tol) == IsFin(a) /\ IsFin(b) /\ Abs(a - b) <= tol

Finished(t) == th[t].pc = "ret"
IsNormalize(c) == c.op \in {"normalize", "normalize_events"}
\* the norm get_norm_params gives for the batch the call was made on
EstOf(c) ==
    IF c.op = "normalize_events" THEN get_norm_params_events(c.arg) ELSE get_norm_params(c.arg)
\* the values of the batch as the call has left it, and as it was given
BatchNow(c) == IF c.op = "normalize_events" THEN EventMeans(c.events) ELSE c.raw
BatchGiven(c) == IF c.op = "normalize_events" THEN EventMeans(c.arg) ELSE c.arg

-----------------------------------------------------------------------------
(* claims *)

\* C1: constructing from a path that cannot be opened finishes and leaves loaded
\* false, so is_loaded() returns false afterwards.
C1_UnopenedEndsNotLoaded == (~opened) ~> (pc = "done" /\ is_loaded = FALSE)

\* C2: a row whose identifier is out of range is skipped: the pass changes no
\* table entry and adds nothing to the running sum; every row after it is still
\* processed; and is_loaded() is true once a file that opened has been read.
C2_SkipAndContinue ==
    [][ /\ (pc = "read_loop" /\ HoldsOutOfRange) =>
            (lv_means_' = lv_means_ /\ lv_vars_x2_' = lv_vars_x2_
                /\ lognorm_denoms_' = lognorm_denoms_ /\ model_mean_' = model_mean_)
        /\ (pc' = "done" /\ CompleteRowsFile) =>
            /\ is_loaded'
            /\ \A j \in 1..Len(rows) : ~RowInRange(j) =>
                    \A j2 \in (j + 1)..Len(rows) : WasProcessed(j2)' ]_vars

\* C3: after construction from a file that opens, global_mean is the sum of the
\* stored means of slots [0, kmer_count) over kmer_count and global_stdev is the
\* population standard deviation of those stored means.
C3_AggregatesOfStoredMeans ==
    (pc = "done" /\ opened) =>
        LET mean == FDiv(StoredSum(0, kmer_count_), kmer_count_ * FP)
        IN  /\ model_mean_ = mean
            /\ model_stdv_ = FSqrt(FDiv(StoredSqDev(0, kmer_count_, mean), kmer_count_ * FP))

\* the scenario of C4: k = 4, complement = false, a 3-column file with the rows
\* AAAA 90.0 1.0 and AAAC 95.0 2.0
Scenario == KLEN = 4 /\ ~complement /\ opened /\ num_cols = 3 /\ rows = ScenarioRows

\* C4 as stated: the scenario file loads with global_mean about 92.5.
C4_ScenarioMeanIs92 ==
    (pc = "done" /\ Scenario) => Within(model_mean_, 92 * FP + FP \div 2, FP)

\* C4 as amended: the scenario file loads with global_mean (90.0 + 95.0) / 256,
\* about 0.72, when its last row ends with a newline, and 90.0 / 256, about
\* 0.35, when it does not (the last row is then never processed).
C4_ScenarioMeanOverKmerCount ==
    (pc = "done" /\ Scenario) =>
        /\ trail => Within(model_mean_, ((90 + 95) * FP) \div 256, 1)
        /\ ~trail => Within(model_mean_, (90 * FP) \div 256, 1)

C4_Witness == pc = "done" /\ Scenario /\ trail /\ model_mean_ = 72 /\ processed = <<1, 2>>

\* C5: when the estimated scale is not 0, normalize(batch) with the default norm
\* leaves the batch as normalize(batch, get_norm_params(batch)) leaves it, for
\* the float and for the Event overload.
C5_DefaultIsEstimate ==
    \A t \in Threads, u \in Threads :
        ( /\ Finished(t) /\ Finished(u)
          /\ IsNormalize(th[t]) /\ th[u].op = th[t].op /\ th[u].arg = th[t].arg
          /\ th[t].given = NoNorm
          /\ th[u].given = EstOf(th[u])
          /\ EstOf(th[u]).scale # 0 )
        => (th[t].raw = th[u].raw /\ th[t].events = th[u].events)

C5_WitnessOf(op) ==
    /\ Finished(1) /\ Finished(2)
    /\ th[1].op = op /\ th[2].op = op /\ th[2].arg = th[1].arg
    /\ th[1].given = NoNorm /\ th[2].given = EstOf(th[2]) /\ IsFin(EstOf(th[2]).scale)
    /\ EstOf(th[2]).scale # 0
    /\ BatchNow(th[1]) # BatchGiven(th[1])

C5_Witness == C5_WitnessOf("normalize")

\* the tolerance of C6: 0.05, and 5% of the value aimed at
Near(a, b) == Within(a, b, 5 + Abs(b) \div 20)

\* C6 as stated: normalize(batch, get_norm_params(batch)) leaves a batch whose
\* mean is global_mean and whose population standard deviation is global_stdev,
\* within tolerance.
C6_RoundTrip ==
    \A t \in Threads :
        (Finished(t) /\ th[t].op = "normalize" /\ th[t].given = EstOf(th[t])) =>
            /\ Near(BatchMean(th[t].raw), model_mean_)
            /\ Near(BatchStdv(th[t].raw), model_stdv_)

\* C6 as amended: the same for a batch that is not empty and whose standard
\* deviation is not 0, on a table whose aggregates are finite, when the
\* normalized values are finite.
C6_RoundTripNonDegenerate ==
    \A t \in Threads :
        ( /\ Finished(t) /\ th[t].op = "normalize" /\ th[t].given = EstOf(th[t])
          /\ Len(th[t].arg) > 0
          /\ IsFin(BatchStdv(th[t].arg)) /\ BatchStdv(th[t].arg) # 0
          /\ IsFin(model_mean_) /\ IsFin(model_stdv_)
          /\ \A j \in 1..Len(th[t].raw) : IsFin(th[t].raw[j]) )
        => /\ Near(BatchMean(th[t].raw), model_mean_)
           /\ Near(BatchStdv(th[t].raw), model_stdv_)

C6_Witness ==
    /\ Finished(1) /\ th[1].op = "normalize" /\ th[1].given = EstOf(th[1])
    /\ Len(th[1].arg) > 0 /\ BatchStdv(th[1].arg) = FP
    /\ IsFin(model_mean_) /\ model_stdv_ > FP /\ IsFin(model_stdv_)
    /\ \A j \in 1..Len(th[1].raw) : IsFin(th[1].raw[j])
    /\ th[1].raw # th[1].arg

\* observed values the scorer is compared on
ScoreXs == {0, FP \div 2, FP, FP + 1, 2 * FP, 5 * FP, 90 * FP, 96 * FP}

Dev(x, id) == FAbs(FSub(x, lv_means_[id]))

\* C7 as stated: for every id in [0, kmer_count) of a loaded table,
\* |x1 - means[id]| < |x2 - means[id]| implies
\* match_log_prob(x1, id) > match_log_prob(x2, id).
C7_StrictlyDecreasing ==
    (pc = "done" /\ is_loaded) =>
        \A id \in 0..(kmer_count_ - 1), x1 \in ScoreXs, x2 \in ScoreXs :
            FLt(Dev(x1, id), Dev(x2, id)) =>
                FGt(event_match_prob(x1, id), event_match_prob(x2, id))

\* C7 as amended: for every id in [0, kmer_count) whose variance2x[id] is
\* positive and finite, |x1 - means[id]| < |x2 - means[id]| implies
\* match_log_prob(x1, id) >= match_log_prob(x2, id).
C7_NonIncreasing ==
    (pc = "done" /\ is_loaded) =>
        \A id \in 0..(kmer_count_ - 1), x1 \in ScoreXs, x2 \in ScoreXs :
            (IsFin(lv_vars_x2_[id]) /\ lv_vars_x2_[id] > 0 /\ FLt(Dev(x1, id), Dev(x2, id))) =>
                FGe(event_match_prob(x1, id), event_match_prob(x2, id))

C7_Witness ==
    /\ Finished(1) /\ th[1].op = "match" /\ th[1].id < kmer_count_
    /\ IsFin(lv_vars_x2_[th[1].id]) /\ lv_vars_x2_[th[1].id] > 0
    /\ \E x2 \in ScoreXs :
        /\ FLt(Dev(th[1].x, th[1].id), Dev(x2, th[1].id))
        /\ FGt(th[1].ret, event_match_prob(x2, th[1].id))

\* what a finished call returns or leaves when it runs alone on the table
AloneResult(c) ==
    /\ c.op \in {"match", "match_event"} => c.ret = event_match_prob(c.x, c.id)
    /\ c.op = "params" => c.rparams = get_norm_params(c.arg)
    /\ c.op = "params_events" => c.rparams = get_norm_params_events(c.arg)
    /\ c.op = "normalize" =>
        c.raw = [j \in 1..Len(c.arg) |-> Affine(NormUsed(c.arg, c.given), c.arg[j])]
    /\ c.op = "normalize_events" =>
        c.events = [j \in 1..Len(c.arg) |->
                        Event(Affine(NormUsedEvents(c.arg, c.given), c.arg[j].mean))]

\* every finished call has the result it has when run alone
FinishedAsAlone == \A t \in Threads : Finished(t) => AloneResult(th[t])

\* C8: once construction has finished, every step of any interleaving of calls
\* leaves all table fields unchanged and changes nothing but the stepping
\* caller's own call and batch, and every finished call has the result it has
\* when run alone.
C8_SharedReadOnly ==
    [][ pc = "done" =>
            /\ tableVars' = tableVars
            /\ \A t \in Threads : th'[t] # th[t] => \A u \in Threads \ {t} : th'[u] = th[u]
            /\ FinishedAsAlone' ]_vars

C8_Witness ==
    /\ th[1].pc = "loop" /\ th[1].i = 1 /\ th[1].raw # th[1].arg
    /\ th[2].pc = "loop" /\ th[2].i = 1 /\ th[2].op = "normalize_events"

\* C9: construction terminates for every input.
C9_ConstructorTerminates == <>(pc = "done")

\* C10: for a file of N complete rows, with or without a final newline, the
\* loader processes exactly those N rows, each once and in file order; every
\* in-range row's level_mean and 2*level_stdv^2 is in the table afterwards (the
\* last row for an id wins), and no slot is written from anything else.
C10_ExactlyTheRows ==
    (pc = "done" /\ CompleteRowsFile) =>
        /\ processed = [j \in 1..Len(rows) |-> j]
        /\ \A id \in 0..(kmer_count_ - 1) :
            LET j == LastRowFor(id)
            IN  /\ lv_means_[id] = IF j = 0 THEN 0 ELSE rows[j].mean
                /\ lv_vars_x2_[id] = IF j = 0 THEN 0 ELSE Var2x(rows[j].stdv)

====
